---- MODULE Spec2Model ----
(***************************************************************************)
(* Model of kicad_table.py: the row expander (expand_multiple_values), the *)
(* table generator (generate_table_from_combined_csv), the index builder   *)
(* (create_index_page) and the driver (main).                              *)
(*                                                                         *)
(* A Python str is a sequence of one-character strings.  A pandas Series   *)
(* (one Record) is a function from column names to cell values.  A cell is *)
(* a str, the float NaN (a null cell) or a number (what read_csv makes of  *)
(* a column that holds only digits).                                       *)
(***************************************************************************)
EXTENDS Integers, Sequences, FiniteSets, TLC

VARIABLES
    pc, exc,
    heap, row, expanded_rows,
    df, headers, iterPos, origin, table_html,
    listing, dirPos, filePos, component_pages, combined_df, disk, writes

eVars == <<heap, row>>
tVars == <<df, headers, iterPos, origin, table_html>>
mVars == <<listing, dirPos, filePos, component_pages, combined_df, disk, writes>>
vars == <<pc, exc, expanded_rows, eVars, tVars, mVars>>

\* ---------------------------------------------------------------- bounds
MaxLen == 4
MaxRows == 2
MaxEntries == 2
MaxFiles == 2

\* ------------------------------------------------------------ Python str
Chars == {"a", " ", ","}
Whitespace == {" "}
EmptyStr == <<>>
StrOf(n) == UNION {[1..k -> Chars] : k \in 0..n}

\* float('nan'): the value of a null cell; pd.notnull is false of it alone
NaN == <<"NaN">>
\* a cell of a column read_csv parsed as numbers (int64, float64): it is not
\* null and has no split method
Numeric == <<"number">>
notnull(v) == v # NaN

Min(a, b) == IF a < b THEN a ELSE b
Max(a, b) == IF a > b THEN a ELSE b

\* str.split(","): the pieces between the commas; "" gives [""]
RECURSIVE split(_)
split(s) ==
    IF \A i \in 1..Len(s) : s[i] # ","
    THEN <<s>>
    ELSE LET i == CHOOSE j \in 1..Len(s) :
                      s[j] = "," /\ \A k \in 1..(j - 1) : s[k] # ","
         IN  <<SubSeq(s, 1, i - 1)>> \o split(SubSeq(s, i + 1, Len(s)))

lstripOnly(s) ==
    IF \A i \in 1..Len(s) : s[i] \in Whitespace
    THEN EmptyStr
    ELSE LET lo == CHOOSE j \in 1..Len(s) :
                       s[j] \notin Whitespace
                       /\ \A k \in 1..(j - 1) : s[k] \in Whitespace
         IN  SubSeq(s, lo, Len(s))

\* str.strip(): leading and trailing whitespace removed
strip(s) ==
    IF \A i \in 1..Len(s) : s[i] \in Whitespace
    THEN EmptyStr
    ELSE LET lo == CHOOSE j \in 1..Len(s) :
                       s[j] \notin Whitespace
                       /\ \A k \in 1..(j - 1) : s[k] \in Whitespace
             hi == CHOOSE j \in 1..Len(s) :
                       s[j] \notin Whitespace
                       /\ \A k \in (j + 1)..Len(s) : s[k] \in Whitespace
         IN  SubSeq(s, lo, hi)

\* list * n
RECURSIVE ListTimes(_, _)
ListTimes(lst, n) ==
    IF n <= 0 THEN <<>> ELSE lst \o ListTimes(lst, n - 1)

neverReplicate(lst, max_len) == lst

\* lines 66-67: lst * max_len if len(lst) == 1 else lst
replicate(lst, max_len) ==
    IF Len(lst) = 1 THEN ListTimes(lst, max_len) ELSE lst

zipLongest(a, b) ==
    [k \in 1..Max(Len(a), Len(b)) |->
        <<IF k <= Len(a) THEN a[k] ELSE EmptyStr,
          IF k <= Len(b) THEN b[k] ELSE EmptyStr>>]

\* zip(a, b): positional pairs, as many as the shorter list has
zip(a, b) ==
    [k \in 1..Min(Len(a), Len(b)) |-> <<a[k], b[k]>>]

\* -------------------------------------------------------- pandas Series
dk_part_column == "DK Part #"
package_column == " Package"

\* series[col] = value on a label the Series has or has not
SetItem(series, col, value) ==
    [c \in DOMAIN series \cup {col} |-> IF c = col THEN value ELSE series[c]]

aliasRow(h, ref) == [heap |-> h, ref |-> ref]

\* row.copy(): a new Series object holding the same cells
copyRow(h, ref) ==
    [heap |-> Append(h, h[ref]), ref |-> Len(h) + 1]

\* lines 61-62: what the two cell reads raise, the DK Part # one first
RaisedBy(series) ==
    IF dk_part_column \notin DOMAIN series THEN "KeyError"
    ELSE IF series[dk_part_column] = Numeric THEN "AttributeError"
    ELSE IF package_column \notin DOMAIN series THEN "KeyError"
    ELSE IF series[package_column] = Numeric THEN "AttributeError"
    ELSE "none"

\* lines 61-62: row[col].split(",") if pd.notnull(row[col]) else [""]
cellList(series, col) ==
    IF notnull(series[col]) THEN split(series[col]) ELSE <<EmptyStr>>

\* lines 70-75: the loop over the zipped pairs, on the heap of Series objects
RECURSIVE expandLoop(_, _, _, _)
expandLoop(h, ref, pairs, out) ==
    IF pairs = <<>>
    THEN [heap |-> h, out |-> out]
    ELSE LET c  == copyRow(h, ref)
             r1 == SetItem(c.heap[c.ref], dk_part_column, strip(pairs[1][1]))
             r2 == SetItem(r1, package_column, strip(pairs[1][2]))
             h2 == [c.heap EXCEPT ![c.ref] = r2]
         IN  expandLoop(h2, ref, Tail(pairs), Append(out, c.ref))

\* lines 59-77 on a call that does not raise: the heap after and the list of
\* references returned
expand_multiple_values(h, ref) ==
    LET dk0      == cellList(h[ref], dk_part_column)
        pk0      == cellList(h[ref], package_column)
        max_len  == Max(Len(dk0), Len(pk0))
        dk_parts == replicate(dk0, max_len)
        packages == replicate(pk0, max_len)
    IN  expandLoop(h, ref, zip(dk_parts, packages), <<>>)

\* ------------------------------------------------- inputs of the expander
Missing == <<"missing">>
OtherCell == <<" ", "a", ",", "a">>
LinkedCells == StrOf(MaxLen) \cup {NaN, Numeric}

MakeSeries(dk, pk) ==
    [c \in {"Mfr"} \cup (IF dk = Missing THEN {} ELSE {dk_part_column})
                  \cup (IF pk = Missing THEN {} ELSE {package_column}) |->
        IF c = dk_part_column THEN dk
        ELSE IF c = package_column THEN pk
        ELSE OtherCell]

\* pd.DataFrame(): no columns, no rows
EmptyFrame == [columns |-> <<>>, rows |-> <<>>]
NoFiles == [n \in {} |-> n]

\* the variables of generate_table_from_combined_csv, main and the heap
\* before the function that owns them is entered
IdleT ==
    /\ df = EmptyFrame /\ headers = <<>> /\ iterPos = 0 /\ origin = <<>>
    /\ table_html = <<>>
IdleM ==
    /\ listing = <<>> /\ dirPos = 0 /\ filePos = 0 /\ component_pages = <<>>
    /\ disk = NoFiles /\ writes = <<>>
IdleE ==
    /\ heap = <<>> /\ row = 0

InitExpand ==
    /\ pc = "call" /\ exc = "none"
    /\ \E dk \in LinkedCells \cup {Missing} :
          \E pk \in LinkedCells \cup {Missing} :
              heap = <<MakeSeries(dk, pk)>>
    /\ row = 1
    /\ expanded_rows = <<>>
    /\ combined_df = EmptyFrame
    /\ IdleT /\ IdleM

\* a call of expand_multiple_values(row) that returns
ExpandReturns ==
    /\ pc = "call"
    /\ RaisedBy(heap[row]) = "none"
    /\ LET r == expand_multiple_values(heap, row)
       IN  /\ heap' = r.heap
           /\ expanded_rows' = r.out
    /\ pc' = "returned"
    /\ UNCHANGED <<exc, row, tVars, mVars>>

\* a call of expand_multiple_values(row) that raises at line 61 or 62
ExpandRaises ==
    /\ pc = "call"
    /\ RaisedBy(heap[row]) # "none"
    /\ exc' = RaisedBy(heap[row])
    /\ pc' = "raised"
    /\ UNCHANGED <<heap, row, expanded_rows, tVars, mVars>>

NextExpand ==
    \/ ExpandReturns
    \/ ExpandRaises

SpecExpand == InitExpand /\ [][NextExpand]_vars

\* ------------------------- generate_table_from_combined_csv (lines 79-109)
EXCLUDE_COLUMNS ==
    {"Price", "Stock", "@ qty", "Min Qty", "Series", "Size / Dimension",
     "Number of Terminations", "Features", "Temperature Coefficient",
     "Operating Temperature", "Supplier Device Package",
     "Height - Seated (Max)", "Composition", "Product Status", "Supplier",
     "Failure Rate", "Ratings", "Image", "Datasheet", "Applications",
     "Lead Spacing", "Lead Style", "Thickness (Max)"}

keepAllColumns(columns) == columns

\* line 81: [col for col in df.columns if col not in EXCLUDE_COLUMNS]
RECURSIVE keptColumns(_)
keptColumns(columns) ==
    IF columns = <<>> THEN <<>>
    ELSE (IF Head(columns) \notin EXCLUDE_COLUMNS
          THEN <<Head(columns)>> ELSE <<>>) \o keptColumns(Tail(columns))

ColumnSet(columns) == {columns[i] : i \in 1..Len(columns)}

\* line 81: df[[...]], the frame projected on the listed columns
project(frame, columns) ==
    [columns |-> columns,
     rows    |-> [i \in 1..Len(frame.rows) |->
                     [c \in ColumnSet(columns) |-> frame.rows[i][c]]]]

listPrepend(lst, more) == more \o lst

\* line 87: list.extend
listExtend(lst, more) == lst \o more

\* lines 91-108: the header cells plus "Copy", and per Record of expanded_df
\* its cells in column order (the cells a row's button copies are the same)
render(hdrs, series) ==
    [thead |-> hdrs \o <<"Copy">>,
     tbody |-> [k \in 1..Len(series) |->
                   [i \in 1..Len(hdrs) |-> series[k][hdrs[i]]]]]

\* lines 81-82
FilterColumns ==
    /\ pc = "filter"
    /\ df' = project(df, keptColumns(df.columns))
    /\ headers' = keptColumns(df.columns)
    /\ expanded_rows' = <<>>
    /\ origin' = <<>>
    /\ iterPos' = 0
    /\ pc' = "iterrows"
    /\ UNCHANGED <<exc, eVars, table_html, mVars>>

\* lines 86-87, one iteration whose expand_multiple_values call returns;
\* iterrows hands the loop a new Series object
IterRow ==
    /\ pc = "iterrows"
    /\ iterPos < Len(df.rows)
    /\ RaisedBy(df.rows[iterPos + 1]) = "none"
    /\ LET r == expand_multiple_values(Append(heap, df.rows[iterPos + 1]),
                                       Len(heap) + 1)
       IN  /\ heap' = r.heap
           /\ row' = Len(heap) + 1
           /\ expanded_rows' = listExtend(expanded_rows, r.out)
           /\ origin' = listExtend(origin,
                                   [k \in 1..Len(r.out) |-> iterPos + 1])
    /\ iterPos' = iterPos + 1
    /\ UNCHANGED <<pc, exc, df, headers, table_html, mVars>>

\* lines 86-87, one iteration whose expand_multiple_values call raises
IterRowRaises ==
    /\ pc = "iterrows"
    /\ iterPos < Len(df.rows)
    /\ RaisedBy(df.rows[iterPos + 1]) # "none"
    /\ heap' = Append(heap, df.rows[iterPos + 1])
    /\ row' = Len(heap) + 1
    /\ exc' = RaisedBy(df.rows[iterPos + 1])
    /\ pc' = "raised"
    /\ UNCHANGED <<expanded_rows, df, headers, iterPos, origin, table_html,
                   mVars>>

\* lines 88-109
Render ==
    /\ pc = "iterrows"
    /\ iterPos = Len(df.rows)
    /\ table_html' = render(headers, [k \in 1..Len(expanded_rows) |->
                                         heap[expanded_rows[k]]])
    /\ pc' = "returned"
    /\ UNCHANGED <<exc, expanded_rows, eVars, df, headers, iterPos, origin,
                   mVars>>

\* ------------------------------------------- inputs of the table generator
Universe == {dk_part_column, package_column, "Mfr Part #", "Price"}
TableCells ==
    {<<"a">>, <<" ", "a", ",", "a">>, <<",", ",", "a">>}
PriceCell == <<"a", ",", "a">>
IdCell(i) == [k \in 1..i |-> "a"]

\* read_csv gives every column of a frame its own name
Headers ==
    {h \in UNION {[1..k -> Universe] : k \in 0..Cardinality(Universe)} :
        \A i, j \in 1..Len(h) : i # j => h[i] # h[j]}

LinkedIn(h) == ColumnSet(h) \cap {dk_part_column, package_column}

\* the frame with header h whose i-th Record has the linked cells cells[i]
MakeFrame(h, cells) ==
    [columns |-> h,
     rows |-> [i \in 1..Len(cells) |->
                 [c \in ColumnSet(h) |->
                     IF c \in LinkedIn(h) THEN cells[i][c]
                     ELSE IF c = "Price" THEN PriceCell
                     ELSE IdCell(i)]]]

InitTable ==
    /\ pc = "filter" /\ exc = "none"
    /\ \E h \in Headers : \E n \in 0..MaxRows :
          \E cells \in [1..n -> [LinkedIn(h) -> TableCells]] :
              combined_df = MakeFrame(h, cells)
    /\ df = combined_df
    /\ headers = <<>> /\ iterPos = 0 /\ origin = <<>> /\ table_html = <<>>
    /\ expanded_rows = <<>>
    /\ IdleE /\ IdleM

NextTable ==
    \/ FilterColumns
    \/ IterRow
    \/ IterRowRaises
    \/ Render

SpecTable == InitTable /\ [][NextTable]_vars

\* ------------------------------------------------------ main and the index
Lowers ==
    <<"a", "b", "c", "d", "e", "f", "g", "h", "i", "j", "k", "l", "m",
      "n", "o", "p", "q", "r", "s", "t", "u", "v", "w", "x", "y", "z">>
Uppers ==
    <<"A", "B", "C", "D", "E", "F", "G", "H", "I", "J", "K", "L", "M",
      "N", "O", "P", "Q", "R", "S", "T", "U", "V", "W", "X", "Y", "Z">>
IsCased(c) == \E i \in 1..26 : c = Lowers[i] \/ c = Uppers[i]
upper(c) ==
    IF \E i \in 1..26 : c = Lowers[i]
    THEN Uppers[CHOOSE i \in 1..26 : c = Lowers[i]] ELSE c
lower(c) ==
    IF \E i \in 1..26 : c = Uppers[i]
    THEN Lowers[CHOOSE i \in 1..26 : c = Uppers[i]] ELSE c

\* str.title(): a cased character is upper-cased after an uncased one (or at
\* the start) and lower-cased after a cased one
title(s) ==
    [i \in 1..Len(s) |->
        IF ~IsCased(s[i]) THEN s[i]
        ELSE IF i = 1 \/ ~IsCased(s[i - 1]) THEN upper(s[i])
        ELSE lower(s[i])]

\* str.replace(old, new) for one-character old and new
replace(s, old, new) ==
    [i \in 1..Len(s) |-> IF s[i] = old THEN new ELSE s[i]]

DotHtml == <<".", "h", "t", "m", "l">>
IndexHtml == <<"i", "n", "d", "e", "x">> \o DotHtml

\* line 154
component_name(subdirectory) == title(replace(subdirectory, "_", " "))
\* line 155
output_filename(subdirectory) == subdirectory \o DotHtml

\* line 171: component_html_template with its two placeholders filled
componentPage(name, table) ==
    [template |-> "component", component_name |-> name, content |-> table]

\* line 135: one <li><a href="{page}.html">{page.title()}</a></li> per page
links_html(pages) ==
    [k \in 1..Len(pages) |->
        [href |-> pages[k] \o DotHtml, text |-> title(pages[k])]]

\* line 139: index_html with its placeholder filled
indexPage(pages) ==
    [template |-> "index", component_name |-> <<>>,
     content |-> links_html(pages)]

\* open(name, "w").write(content)
writeFile(d, name, content) ==
    [n \in DOMAIN d \cup {name} |-> IF n = name THEN content ELSE d[n]]

\* line 164: pd.concat([a, b], ignore_index=True): a's columns, then b's new
\* ones; a's rows, then b's; a cell a frame lacks is NaN
concat(a, b) ==
    LET cols == a.columns \o
                SelectSeq(b.columns, LAMBDA c : c \notin ColumnSet(a.columns))
        pad(r) == [c \in ColumnSet(cols) |->
                      IF c \in DOMAIN r THEN r[c] ELSE NaN]
    IN  [columns |-> cols,
         rows |-> [i \in 1..(Len(a.rows) + Len(b.rows)) |->
                     IF i <= Len(a.rows) THEN pad(a.rows[i])
                     ELSE pad(b.rows[i - Len(a.rows)])]]

\* ------------------------------------------------------- inputs of main
Index == <<"i", "n", "d", "e", "x">>
ChipRes == <<"r", "_", "c">>
Notes == <<"n", "o", "t", "e", "s">>
DirNames == {Index, ChipRes}
EntryNames == DirNames \cup {Notes}

FrameA ==
    [columns |-> <<dk_part_column, package_column, "Price">>,
     rows |-> <<[c \in {dk_part_column, package_column, "Price"} |->
                   IF c = dk_part_column THEN <<"a">>
                   ELSE IF c = package_column THEN <<" ", "a", ",", "a">>
                   ELSE PriceCell]>>]
FrameB ==
    [columns |-> <<dk_part_column, "Mfr Part #">>,
     rows |-> <<[c \in {dk_part_column, "Mfr Part #"} |->
                   IF c = dk_part_column THEN <<"a", ",", "a">>
                   ELSE IdCell(1)]>>]

\* a file of a subdirectory: its name ends in .csv or not, read_csv parses
\* it or raises, and the frame read_csv returns
FileKinds ==
    {[csv |-> FALSE, parses |-> FALSE, frame |-> EmptyFrame],
     [csv |-> TRUE, parses |-> FALSE, frame |-> EmptyFrame],
     [csv |-> TRUE, parses |-> TRUE, frame |-> FrameA],
     [csv |-> TRUE, parses |-> TRUE, frame |-> FrameB]}
FileLists == UNION {[1..k -> FileKinds] : k \in 0..MaxFiles}

InitMain ==
    /\ pc = "listdir" /\ exc = "none"
    /\ \E n \in 0..MaxEntries : \E names \in [1..n -> EntryNames] :
          \E fl \in [1..n -> FileLists] :
              /\ \A i, j \in 1..n : i # j => names[i] # names[j]
              /\ listing = [i \in 1..n |->
                              [name |-> names[i],
                               isdir |-> names[i] \in DirNames,
                               csvs |-> IF names[i] \in DirNames
                                        THEN fl[i] ELSE <<>>]]
    /\ dirPos = 0 /\ filePos = 0 /\ component_pages = <<>>
    /\ combined_df = EmptyFrame
    /\ disk = NoFiles /\ writes = <<>>
    /\ expanded_rows = <<>>
    /\ IdleE /\ IdleT

\* lines 149-153, an entry that is no directory
SkipEntry ==
    /\ pc = "listdir"
    /\ dirPos < Len(listing)
    /\ ~listing[dirPos + 1].isdir
    /\ dirPos' = dirPos + 1
    /\ UNCHANGED <<pc, exc, expanded_rows, eVars, tVars, listing, filePos,
                   component_pages, combined_df, disk, writes>>

\* lines 149-159, an entry that is a directory
EnterSubdirectory ==
    /\ pc = "listdir"
    /\ dirPos < Len(listing)
    /\ listing[dirPos + 1].isdir
    /\ dirPos' = dirPos + 1
    /\ component_pages' = Append(component_pages, listing[dirPos + 1].name)
    /\ combined_df' = EmptyFrame
    /\ filePos' = 0
    /\ pc' = "readdir"
    /\ UNCHANGED <<exc, expanded_rows, eVars, tVars, listing, disk, writes>>

\* lines 160-161, a file whose name does not end in .csv
SkipFile ==
    /\ pc = "readdir"
    /\ filePos < Len(listing[dirPos].csvs)
    /\ ~listing[dirPos].csvs[filePos + 1].csv
    /\ filePos' = filePos + 1
    /\ UNCHANGED <<pc, exc, expanded_rows, eVars, tVars, listing, dirPos,
                   component_pages, combined_df, disk, writes>>

\* lines 160-164, a .csv file that read_csv parses
ReadCsv ==
    /\ pc = "readdir"
    /\ filePos < Len(listing[dirPos].csvs)
    /\ listing[dirPos].csvs[filePos + 1].csv
    /\ listing[dirPos].csvs[filePos + 1].parses
    /\ combined_df' = concat(combined_df, listing[dirPos].csvs[filePos + 1].frame)
    /\ filePos' = filePos + 1
    /\ UNCHANGED <<pc, exc, expanded_rows, eVars, tVars, listing, dirPos,
                   component_pages, disk, writes>>

\* lines 160-163, a .csv file on which read_csv raises: nothing catches it
ReadCsvRaises ==
    /\ pc = "readdir"
    /\ filePos < Len(listing[dirPos].csvs)
    /\ listing[dirPos].csvs[filePos + 1].csv
    /\ ~listing[dirPos].csvs[filePos + 1].parses
    /\ exc' = "ParserError"
    /\ pc' = "raised"
    /\ UNCHANGED <<expanded_rows, eVars, tVars, mVars>>

\* line 167, the call: df is bound to combined_df
CallGenerateTable ==
    /\ pc = "readdir"
    /\ filePos = Len(listing[dirPos].csvs)
    /\ df' = combined_df
    /\ pc' = "filter"
    /\ UNCHANGED <<exc, expanded_rows, eVars, headers, iterPos, origin,
                   table_html, mVars>>

\* lines 170-171
WritePage ==
    /\ pc = "returned"
    /\ LET subdirectory == listing[dirPos].name
           page == componentPage(component_name(subdirectory), table_html)
       IN  /\ disk' = writeFile(disk, output_filename(subdirectory), page)
           /\ writes' = Append(writes,
                               [name |-> output_filename(subdirectory),
                                content |-> page])
    /\ pc' = "listdir"
    /\ UNCHANGED <<exc, expanded_rows, eVars, tVars, listing, dirPos, filePos,
                   component_pages, combined_df>>

\* lines 174-175 and create_index_page, lines 134-139
CreateIndexPage ==
    /\ pc = "listdir"
    /\ dirPos = Len(listing)
    /\ disk' = writeFile(disk, IndexHtml, indexPage(component_pages))
    /\ writes' = Append(writes, [name |-> IndexHtml,
                                 content |-> indexPage(component_pages)])
    /\ pc' = "done"
    /\ UNCHANGED <<exc, expanded_rows, eVars, tVars, listing, dirPos, filePos,
                   component_pages, combined_df>>

NextMain ==
    \/ SkipEntry
    \/ EnterSubdirectory
    \/ SkipFile
    \/ ReadCsv
    \/ ReadCsvRaises
    \/ CallGenerateTable
    \/ FilterColumns
    \/ IterRow
    \/ IterRowRaises
    \/ Render
    \/ WritePage
    \/ CreateIndexPage

SpecMain == InitMain /\ [][NextMain]_vars

\* ------------------------------------------- properties of the expander
\* The statements below describe the cells without using split, strip, zip
\* or replicate: entries are read off the comma positions of the input.
In == heap[row]
Out(k) == heap[expanded_rows[k]]
IsStr(series, col) == col \in DOMAIN series /\ series[col] \notin {NaN, Numeric}
IsNull(series, col) == col \in DOMAIN series /\ series[col] = NaN
CommaAt(v) == {i \in 1..Len(v) : v[i] = ","}
NumEntries(v) == IF v = NaN THEN 1 ELSE Cardinality(CommaAt(v)) + 1
KthComma(v, k) ==
    CHOOSE i \in CommaAt(v) : Cardinality({j \in CommaAt(v) : j < i}) = k - 1
EntryOf(v, k) ==
    IF v = NaN THEN EmptyStr
    ELSE SubSeq(v,
                IF k = 1 THEN 1 ELSE KthComma(v, k - 1) + 1,
                IF k = NumEntries(v) THEN Len(v) ELSE KthComma(v, k) - 1)
IsTrimOf(t, e) ==
    /\ t = EmptyStr \/ (t[1] \notin Whitespace /\ t[Len(t)] \notin Whitespace)
    /\ \E i \in 0..Len(e) : \E j \in i..Len(e) :
          /\ SubSeq(e, i + 1, j) = t
          /\ \A k \in (1..i) \cup ((j + 1)..Len(e)) : e[k] \in Whitespace
Splittable(series) ==
    /\ IsStr(series, dk_part_column) \/ IsNull(series, dk_part_column)
    /\ IsStr(series, package_column) \/ IsNull(series, package_column)
LenA == NumEntries(In[dk_part_column])
LenB == NumEntries(In[package_column])
PairedAt(k, ka, kb) ==
    /\ IsTrimOf(Out(k)[dk_part_column], EntryOf(In[dk_part_column], ka))
    /\ IsTrimOf(Out(k)[package_column], EntryOf(In[package_column], kb))

\* C1: broadcast case.  When one linked cell has exactly one entry and the
\* other has n > 1, the call returns n Records; the k-th holds the trimmed
\* k-th entry of the longer list and the trimmed single entry of the other.
C1_Broadcast ==
    (pc = "returned" /\ Splittable(In)) =>
        /\ (LenA = 1 /\ LenB > 1) =>
              /\ Len(expanded_rows) = LenB
              /\ \A k \in 1..LenB : PairedAt(k, 1, k)
        /\ (LenB = 1 /\ LenA > 1) =>
              /\ Len(expanded_rows) = LenA
              /\ \A k \in 1..LenA : PairedAt(k, k, 1)

C1_Witness ==
    /\ pc = "returned"
    /\ In[dk_part_column] = <<"a", ",", " ", "a">>
    /\ In[package_column] = <<" ", "a">>
    /\ Len(expanded_rows) = 2
    /\ Out(2)[dk_part_column] = <<"a">>
    /\ Out(2)[package_column] = <<"a">>

SingleValued(series) ==
    /\ IsStr(series, dk_part_column) /\ CommaAt(series[dk_part_column]) = {}
    /\ IsStr(series, package_column) /\ CommaAt(series[package_column]) = {}
Untrimmed(v) ==
    v # EmptyStr /\ (v[1] \in Whitespace \/ v[Len(v)] \in Whitespace)

\* C3 as stated: two single (comma-free) values give exactly one output
\* Record, identical to the input in every column.
C3_IdenticalAsStated ==
    (pc = "returned" /\ SingleValued(In)) =>
        /\ Len(expanded_rows) = 1
        /\ Out(1) = In

\* C3 amended: two single (comma-free) string values give exactly one output
\* Record with the input's columns; every other column is equal to the
\* input's, and each linked column holds the input value with its
\* surrounding whitespace removed, so the Record is identical to the input
\* exactly when neither value has leading or trailing whitespace.
C3_IdenticalUpToTrim ==
    (pc = "returned" /\ SingleValued(In)) =>
        /\ Len(expanded_rows) = 1
        /\ DOMAIN Out(1) = DOMAIN In
        /\ \A c \in DOMAIN In \ {dk_part_column, package_column} :
              Out(1)[c] = In[c]
        /\ PairedAt(1, 1, 1)
        /\ Out(1) = In <=>
              ~(Untrimmed(In[dk_part_column]) \/ Untrimmed(In[package_column]))

C3_Witness ==
    /\ pc = "returned"
    /\ In[dk_part_column] = <<" ", "a", "a", " ">>
    /\ In[package_column] = <<"a">>
    /\ Len(expanded_rows) = 1
    /\ Out(1)[dk_part_column] = <<"a", "a">>
    /\ Out(1)["Mfr"] = OtherCell

Absent(series, col) == col \notin DOMAIN series \/ series[col] = NaN

\* C5 as stated: a Record with a linked column missing or null makes the
\* call return without raising, and the affected column is the empty string
\* in every output Record.
C5_NoErrorOnAbsentCell ==
    (pc # "call" /\ (Absent(In, dk_part_column) \/ Absent(In, package_column))) =>
        /\ pc = "returned"
        /\ \A k \in 1..Len(expanded_rows) :
              \A c \in {dk_part_column, package_column} :
                  Absent(In, c) => (c \in DOMAIN Out(k) /\ Out(k)[c] = EmptyStr)

\* C10: frame property.  A call that returns leaves the input Record as it
\* was, and every output Record has the input's columns and the input's
\* value in every column but the two linked ones.
C10_Frame ==
    [][(pc = "call" /\ pc' = "returned") =>
          /\ heap'[row] = heap[row]
          /\ \A k \in 1..Len(expanded_rows') :
                /\ expanded_rows'[k] # row
                /\ DOMAIN heap'[expanded_rows'[k]] = DOMAIN heap[row]
                /\ \A c \in DOMAIN heap[row] \ {dk_part_column, package_column} :
                      heap'[expanded_rows'[k]][c] = heap[row][c]]_vars

C10_Witness ==
    /\ pc = "returned"
    /\ In[dk_part_column] = <<"a", ",", "a", "a">>
    /\ In[package_column] = <<" ", "a", " ">>
    /\ Len(expanded_rows) = 2
    /\ Out(2)[dk_part_column] = <<"a", "a">>
    /\ Out(2)["Mfr"] = OtherCell
    /\ In["Mfr"] = OtherCell

\* ------------------------------------ properties of the table generator
PositionIn(columns, c) == CHOOSE i \in 1..Len(columns) : columns[i] = c

\* C9: column filter.  Once the filter has run, no emitted column is in the
\* exclude set, every other column of the source header is emitted exactly
\* once, the emitted columns keep their source order, and the header row of
\* the table is these columns followed by "Copy".
C9_ColumnFilter ==
    (pc \in {"iterrows", "returned"}) =>
        /\ \A i \in 1..Len(headers) : headers[i] \notin EXCLUDE_COLUMNS
        /\ \A c \in ColumnSet(combined_df.columns) \ EXCLUDE_COLUMNS :
              Cardinality({i \in 1..Len(headers) : headers[i] = c}) = 1
        /\ \A i, j \in 1..Len(headers) :
              i < j => /\ headers[i] \in ColumnSet(combined_df.columns)
                       /\ headers[j] \in ColumnSet(combined_df.columns)
                       /\ PositionIn(combined_df.columns, headers[i])
                            < PositionIn(combined_df.columns, headers[j])
        /\ ColumnSet(headers) \subseteq ColumnSet(combined_df.columns)
        /\ df.columns = headers
        /\ pc = "returned" => table_html.thead = headers \o <<"Copy">>

C9_Witness ==
    /\ pc = "returned"
    /\ combined_df.columns =
          <<package_column, "Price", "Mfr Part #", dk_part_column>>
    /\ headers = <<package_column, "Mfr Part #", dk_part_column>>
    /\ Len(combined_df.rows) = 2

\* C4: table expansion keeps order and drops no Record.  Every Record the
\* loop has expanded has at least one output Record, every output Record
\* comes from exactly one input Record and carries that Record's other
\* columns, the outputs of an earlier Record precede those of a later one,
\* and a call that returns has expanded every Record of the table.
C4_OrderPreserving ==
    (pc \in {"iterrows", "returned"}) =>
        /\ Len(origin) = Len(expanded_rows)
        /\ \A i \in 1..iterPos : \E k \in 1..Len(origin) : origin[k] = i
        /\ \A k \in 1..Len(origin) :
              /\ origin[k] \in 1..iterPos
              /\ \A c \in ColumnSet(headers) \ {dk_part_column, package_column} :
                    heap[expanded_rows[k]][c] = combined_df.rows[origin[k]][c]
        /\ \A k, l \in 1..Len(origin) : k < l => origin[k] <= origin[l]
        /\ pc = "returned" =>
              /\ iterPos = Len(combined_df.rows)
              /\ Len(table_html.tbody) = Len(expanded_rows)

C4_Witness ==
    /\ pc = "returned"
    /\ Len(combined_df.rows) = 2
    /\ origin = <<1, 1, 2, 2, 2>>
    /\ "Mfr Part #" \in ColumnSet(headers)
    /\ heap[expanded_rows[3]]["Mfr Part #"] = IdCell(2)

\* ------------------------------------------------- properties of main
RECURSIVE LoadedTable(_)
LoadedTable(fileList) ==
    IF fileList = <<>> THEN EmptyFrame
    ELSE LET f == fileList[Len(fileList)]
             before == LoadedTable(SubSeq(fileList, 1, Len(fileList) - 1))
         IN  IF f.csv /\ f.parses THEN concat(before, f.frame) ELSE before

\* C6 as stated: a .csv file that fails to parse is skipped; the run goes
\* on, and the Table handed to the table generator holds the Records of the
\* files that did load, in enumeration order.
C6_BadCsvSkipped ==
    /\ ~(pc = "raised" /\ exc = "ParserError")
    /\ pc = "filter" => combined_df = LoadedTable(listing[dirPos].csvs)

\* C7 as stated: after a run, every processed subdirectory d has its
\* component page in d.html, index.html holds the index page, and no later
\* write has replaced what an earlier write put in one of these files.
C7_OutputFiles ==
    (pc = "done") =>
        /\ \A k \in 1..Len(component_pages) :
              /\ output_filename(component_pages[k]) \in DOMAIN disk
              /\ disk[output_filename(component_pages[k])].template = "component"
        /\ IndexHtml \in DOMAIN disk
        /\ disk[IndexHtml].template = "index"
        /\ \A k \in 1..Len(writes) : disk[writes[k].name] = writes[k].content

\* C8 as stated: the index page has one link per processed group, in
\* processing order, to <group>.html, titled with the human-readable name
\* main derives for the group (underscores to spaces, words capitalized).
C8_IndexLinks ==
    (pc = "done") =>
        LET links == disk[IndexHtml].content
        IN  /\ Len(links) = Len(component_pages)
            /\ \A k \in 1..Len(links) :
                  /\ links[k].href = component_pages[k] \o DotHtml
                  /\ links[k].text = component_name(component_pages[k])

====
